---- MODULE Spec2Model ----
(***************************************************************************)
(* Model of PartA/booking_scraper.py: the process pool that scrapes one    *)
(* (checkin, checkout) pair per task with an unbounded retry loop, the     *)
(* lock-protected CSV append, and the "load more results" loop.            *)
(***************************************************************************)
EXTENDS Integers, Sequences, FiniteSets, TLC

(* ---------------------------------------------------------------- bounds *)
\* number of date pairs returned by get_dates (length of args_list)
NumTasks == 3
\* number of pool processes (Pool(processes=24) in the source, scaled down)
PoolSize == 2

(* ------------------------------------------------------- program constants *)
\* scrape_date_combination_sync_retry: len(hotels) >= 100
MinHotels == 100
\* extract_hotel_data: range(min(count, 100))
ExtractCap == 100
\* load_hotel_cards(page, min_count=100, max_clicks=5)
MinCount == 100
MaxClicks == 5
\* ensure_date_visible(page, date_str, max_attempts=12)
MaxAttempts == 12

Tasks == 1..NumTasks
Workers == 1..PoolSize

\* card counts a results page can show when the loader returns
CardCounts == {99, 100, 101}

Min(a, b) == IF a < b THEN a ELSE b

VARIABLES
    disp,       \* position of scrape_all_dates_sync / main
    queue,      \* pool task queue: chunks of tasks not yet taken by a worker
    chunk,      \* chunk[w]: tasks of the chunk worker w is running, current first
    pc,         \* pc[w]: state of the task executor in worker w
    sessions,   \* sessions[w]: browser sessions worker w has open
    cards,      \* cards[w]: property cards on worker w's results page
    hotels,     \* hotels[w]: len(hotels) of the attempt / batch in hand
    tries,      \* tries[w]: the attempt of its task worker w is in: none, first, later
    accepted,   \* accepted[t]: the retry loop returned a batch for task t
    result,     \* result[t]: outcome of worker(args) in the pool
    counts,     \* counts[t]: value returned by worker(args) (all_counts)
    lock,       \* holder of the manager lock, 0 if free
    sawExists,  \* sawExists[w]: what os.path.exists returned to worker w
    fileExists, \* os.path.exists(csv_filename)
    file,       \* the lines of the CSV file
    total,      \* sum(all_counts)
    mainCount,  \* len(df) read back by main
    fate,       \* fate[t]: how the site answers task t
    lpc,        \* position of load_hotel_cards
    clicks,     \* load_hotel_cards: clicks
    rounds,     \* number of iterations of the while loop started so far
    pageCards,  \* property cards on the results page
    current_count, \* load_hotel_cards: current_count
    raisedAt,   \* the page call whose exception left load_hotel_cards, if any
    epc,        \* position of extract_hotel_data
    page,       \* the results page extract_hotel_data reads
    card_index, \* extract_hotel_data: i, counted from 1
    hotels_data, \* extract_hotel_data: hotels_data
    gpc,        \* position of get_dates
    start_date, \* get_dates: start_date, as a day number (date.toordinal())
    end_date,   \* get_dates: end_date
    los,        \* get_dates: los
    current_date, \* get_dates: current_date
    stay_j,     \* get_dates: j
    date_tuples, \* get_dates: date_tuples
    cpc,        \* position of ensure_date_visible
    attempts,   \* ensure_date_visible: attempts
    months_away, \* "Next month" advances after which the date's checkbox is visible
    advanced,   \* "Next month" clicks that advanced the calendar
    warned      \* the warning of ensure_date_visible was printed

mainVars == <<disp, queue, chunk, pc, sessions, cards, hotels, tries, accepted,
              result, counts, lock, sawExists, fileExists, file, total, mainCount,
              fate>>

loaderVars == <<lpc, clicks, rounds, pageCards, current_count, raisedAt>>

extractVars == <<epc, page, card_index, hotels_data>>

\* the state of the helper functions checked on their own
datesVars == <<gpc, start_date, end_date, los, current_date, stay_j, date_tuples>>

calendarVars == <<cpc, attempts, months_away, advanced, warned>>

helperVars == <<extractVars, datesVars, calendarVars>>

vars == <<mainVars, loaderVars, helperVars>>

Header == [kind |-> "header"]
\* lines left by an earlier run of the same day
OldFile == <<Header, [kind |-> "rows", task |-> 0, lo |-> 1, hi |-> 1]>>

(* ------------------------------------------------------------ site answers *)
\* the site can show at least MinHotels cards for task t
CanGood(t) == fate[t] # "stuck"
\* the site can show fewer to worker w: always, but for a task that does reach
\* the threshold only in its first attempt
CanLow(w) == fate[Head(chunk[w])] # "ok" \/ tries[w] = "first"
\* a page call of an attempt of task t can raise
CanFail(t) == fate[t] # "ok"


(* ------------------------------------------------------------- pool.map *)
\* Pool._map_async: chunksize, extra = divmod(len(iterable), len(pool) * 4)
ChunkSize == (NumTasks \div (PoolSize * 4))
             + (IF NumTasks % (PoolSize * 4) # 0 THEN 1 ELSE 0)

NumChunks == (NumTasks + ChunkSize - 1) \div ChunkSize

\* Pool._get_tasks: the c-th slice of args_list
ChunkOf(c) == [i \in 1..(Min(c * ChunkSize, NumTasks) - (c - 1) * ChunkSize)
                 |-> (c - 1) * ChunkSize + i]

AllChunks == [c \in 1..NumChunks |-> ChunkOf(c)]

RECURSIVE SumCounts(_, _)
\* sum(all_counts) over the tasks 1..n
SumCounts(f, n) == IF n = 0 THEN 0 ELSE f[n] + SumCounts(f, n - 1)

\* the task worker w is running
Cur(w) == Head(chunk[w])

(* ---------------------------------------------------------------- the file *)
IsRow(l) == l.kind = "rows"

RECURSIVE DataRows(_)
\* number of data rows of a sequence of lines (a line of rows counts hi - lo + 1)
DataRows(f) == IF f = <<>> THEN 0
               ELSE (IF IsRow(Head(f)) THEN Head(f).hi - Head(f).lo + 1 ELSE 0)
                    + DataRows(Tail(f))

RECURSIVE HeaderLines(_)
HeaderLines(f) == IF f = <<>> THEN 0
                  ELSE (IF IsRow(Head(f)) THEN 0 ELSE 1) + HeaderLines(Tail(f))

\* rows lo..hi of the batch worker w holds
Rows(w, lo, hi) == [kind |-> "rows", task |-> Cur(w), lo |-> lo, hi |-> hi]

\* to_csv writes a batch through a buffer: the rows reach the file in two parts
Half(n) == n \div 2

(* -------------------------------------------------------------------- Init *)
InitCommon ==
    /\ disp = "START"
    /\ queue = <<>>
    /\ chunk = [w \in Workers |-> <<>>]
    /\ pc = [w \in Workers |-> "IDLE"]
    /\ sessions = [w \in Workers |-> 0]
    /\ cards = [w \in Workers |-> 0]
    /\ hotels = [w \in Workers |-> 0]
    /\ tries = [w \in Workers |-> "none"]
    /\ accepted = [t \in Tasks |-> FALSE]
    /\ result = [t \in Tasks |-> "pending"]
    /\ counts = [t \in Tasks |-> 0]
    /\ lock = 0
    /\ sawExists = [w \in Workers |-> FALSE]
    /\ fileExists \in BOOLEAN
    /\ file = IF fileExists THEN OldFile ELSE <<>>
    /\ total = 0
    /\ mainCount = 0

\* load_hotel_cards not yet called
LoaderIdle ==
    /\ lpc = "LOOP"
    /\ clicks = 0
    /\ rounds = 0
    /\ pageCards = 0
    /\ current_count = 0
    /\ raisedAt = "none"

\* extract_hotel_data not yet called
ExtractIdle ==
    /\ epc = "IDLE"
    /\ page = [total |-> 0, pos |-> 1, fails |-> {}, kind |-> "timeout", text |-> <<>>]
    /\ card_index = 0
    /\ hotels_data = <<>>

\* get_dates not yet called
DatesIdle ==
    /\ gpc = "IDLE"
    /\ start_date = 0
    /\ end_date = 0
    /\ los = 0
    /\ current_date = 0
    /\ stay_j = 0
    /\ date_tuples = <<>>

\* ensure_date_visible not yet called
CalendarIdle ==
    /\ cpc = "IDLE"
    /\ attempts = 0
    /\ months_away = 0
    /\ advanced = 0
    /\ warned = FALSE

HelpersIdle == ExtractIdle /\ DatesIdle /\ CalendarIdle

\* the rest of the program while a helper function is examined on its own
RunIdle ==
    /\ InitCommon
    /\ ~fileExists
    /\ fate = [t \in Tasks |-> "free"]
    /\ LoaderIdle

Init == InitCommon /\ fate = [t \in Tasks |-> "free"] /\ LoaderIdle /\ HelpersIdle

(* -------------------------------------------------------------- dispatcher *)
\* variant: an existing file is left in place
SetupKeepsFile ==
    /\ disp = "START"
    /\ queue' = AllChunks
    /\ disp' = "MAPPING"
    /\ UNCHANGED <<loaderVars, helperVars>>
    /\ UNCHANGED <<chunk, pc, sessions, cards, hotels, tries, accepted, result,
                   counts, lock, sawExists, fileExists, file, total, mainCount, fate>>

\* scrape_all_dates_sync up to pool.map: the lock, the file name, removal of an
\* existing file, args_list handed to the pool in chunks
Setup ==
    /\ disp = "START"
    /\ fileExists' = FALSE
    /\ file' = <<>>
    /\ queue' = AllChunks
    /\ disp' = "MAPPING"
    /\ UNCHANGED <<loaderVars, helperVars>>
    /\ UNCHANGED <<chunk, pc, sessions, cards, hotels, tries, accepted, result,
                   counts, lock, sawExists, total, mainCount, fate>>

\* variant: the parent goes on as soon as the first result is in
FinishFirstResult ==
    /\ disp = "MAPPING"
    /\ \E t \in Tasks : result[t] = "ok"
    /\ disp' = "RETURNED"
    /\ total' = SumCounts(counts, NumTasks)
    /\ UNCHANGED <<loaderVars, helperVars>>
    /\ UNCHANGED <<queue, chunk, pc, sessions, cards, hotels, tries, accepted,
                   result, counts, lock, sawExists, fileExists, file, mainCount,
                   fate>>

\* pool.map returns once every chunk is done: the results, or the first exception
Finish ==
    /\ disp = "MAPPING"
    /\ \A t \in Tasks : result[t] # "pending"
    /\ IF \E t \in Tasks : result[t] # "ok"
       THEN disp' = "RAISED" /\ total' = total
       ELSE disp' = "RETURNED" /\ total' = SumCounts(counts, NumTasks)
    /\ UNCHANGED <<loaderVars, helperVars>>
    /\ UNCHANGED <<queue, chunk, pc, sessions, cards, hotels, tries, accepted,
                   result, counts, lock, sawExists, fileExists, file, mainCount,
                   fate>>

\* main: df = pd.read_csv(csv_filename); len(df)
MainRead ==
    /\ disp = "RETURNED"
    /\ fileExists
    /\ mainCount' = DataRows(file)
    /\ disp' = "DONE"
    /\ UNCHANGED <<loaderVars, helperVars>>
    /\ UNCHANGED <<queue, chunk, pc, sessions, cards, hotels, tries, accepted,
                   result, counts, lock, sawExists, fileExists, file, total, fate>>

(* ------------------------------------------------------------ pool worker *)
\* a pool process takes the next chunk from the task queue and calls worker(args)
TakeChunk(w) ==
    /\ disp = "MAPPING"
    /\ pc[w] = "IDLE"
    /\ queue # <<>>
    /\ chunk' = [chunk EXCEPT ![w] = Head(queue)]
    /\ queue' = Tail(queue)
    /\ pc' = [pc EXCEPT ![w] = "NEW"]
    /\ UNCHANGED <<loaderVars, helperVars>>
    /\ UNCHANGED <<disp, sessions, cards, hotels, tries, accepted, result, counts,
                   lock, sawExists, fileExists, file, total, mainCount, fate>>

\* what the pool process does after worker(args) returned or raised: the rest of
\* the chunk (mapstar stops at the first exception), then back to the queue
AfterTask(w, ok) ==
    /\ tries' = [tries EXCEPT ![w] = "none"]
    /\ IF ok /\ Len(chunk[w]) > 1
       THEN /\ chunk' = [chunk EXCEPT ![w] = Tail(chunk[w])]
            /\ pc' = [pc EXCEPT ![w] = "NEW"]
            /\ result' = [result EXCEPT ![Cur(w)] = "ok"]
       ELSE /\ chunk' = [chunk EXCEPT ![w] = <<>>]
            /\ pc' = [pc EXCEPT ![w] = "IDLE"]
            /\ result' = [t \in Tasks |->
                   IF t = Cur(w) THEN (IF ok THEN "ok" ELSE "raised")
                   ELSE IF \E i \in 2..Len(chunk[w]) : chunk[w][i] = t THEN "skipped"
                   ELSE result[t]]

(* ---------------------------------------------------------- task executor *)
\* the states of an attempt in which the browser session is open
InSession == {"SEARCHING", "DATE_SELECTING", "LOADING", "EXTRACTING"}

\* scrape_date_combination_sync_retry: top of while True (after time.sleep(2) when
\* the previous attempt was discarded), call of scrape_date_combination_sync;
\* sync_playwright(), launch, new_context, new_page
OpenSession(w) ==
    /\ pc[w] \in {"NEW", "RETRY"}
    /\ tries' = [tries EXCEPT ![w] = IF @ = "none" THEN "first" ELSE "later"]
    /\ sessions' = [sessions EXCEPT ![w] = @ + 1]
    /\ pc' = [pc EXCEPT ![w] = "SEARCHING"]
    /\ UNCHANGED <<loaderVars, helperVars>>
    /\ UNCHANGED <<disp, queue, chunk, cards, hotels, accepted, result, counts,
                   lock, sawExists, fileExists, file, total, mainCount, fate>>

\* page.goto(BASE_URL); destination combobox: click, fill, pick the suggestion
Search(w) ==
    /\ pc[w] = "SEARCHING"
    /\ pc' = [pc EXCEPT ![w] = "DATE_SELECTING"]
    /\ UNCHANGED <<loaderVars, helperVars>>
    /\ UNCHANGED <<disp, queue, chunk, sessions, cards, hotels, tries, accepted,
                   result, counts, lock, sawExists, fileExists, file, total,
                   mainCount, fate>>

\* ensure_date_visible + click for checkin and checkout, click on Search
SelectDates(w) ==
    /\ pc[w] = "DATE_SELECTING"
    /\ pc' = [pc EXCEPT ![w] = "LOADING"]
    /\ UNCHANGED <<loaderVars, helperVars>>
    /\ UNCHANGED <<disp, queue, chunk, sessions, cards, hotels, tries, accepted,
                   result, counts, lock, sawExists, fileExists, file, total,
                   mainCount, fate>>

\* load_hotel_cards(page, min_count=100, max_clicks=5) returns with c cards on the page
Load(w) ==
    /\ pc[w] = "LOADING"
    /\ \E c \in CardCounts :
        /\ IF c >= MinCount THEN CanGood(Cur(w)) ELSE CanLow(w)
        /\ cards' = [cards EXCEPT ![w] = c]
    /\ pc' = [pc EXCEPT ![w] = "EXTRACTING"]
    /\ UNCHANGED <<loaderVars, helperVars>>
    /\ UNCHANGED <<disp, queue, chunk, sessions, hotels, tries, accepted, result,
                   counts, lock, sawExists, fileExists, file, total, mainCount, fate>>

\* variant: every card on the page gives a record
ExtractCountUncapped(c) == c

\* extract_hotel_data: one record for each of the first min(count, 100) cards
ExtractCount(c) == Min(c, ExtractCap)

\* hotels = extract_hotel_data(page), checkin/checkout added to each record;
\* context.close(); browser.close(); return hotels (leaving the with block)
ExtractAndClose(w) ==
    /\ pc[w] = "EXTRACTING"
    /\ hotels' = [hotels EXCEPT ![w] = ExtractCount(cards[w])]
    /\ cards' = [cards EXCEPT ![w] = 0]
    /\ sessions' = [sessions EXCEPT ![w] = @ - 1]
    /\ pc' = [pc EXCEPT ![w] = "CHECK"]
    /\ UNCHANGED <<loaderVars, helperVars>>
    /\ UNCHANGED <<disp, queue, chunk, tries, accepted, result, counts, lock,
                   sawExists, fileExists, file, total, mainCount, fate>>

\* variant: the exception leaves the attempt without any teardown
AttemptRaisesLeak(w) ==
    /\ pc[w] \in InSession
    /\ CanFail(Cur(w))
    /\ cards' = [cards EXCEPT ![w] = 0]
    /\ hotels' = [hotels EXCEPT ![w] = 0]
    /\ AfterTask(w, FALSE)
    /\ UNCHANGED <<loaderVars, helperVars>>
    /\ UNCHANGED <<disp, queue, sessions, accepted, counts, lock, sawExists,
                   fileExists, file, total, mainCount, fate>>

\* a page call of the attempt raises: the with block stops the playwright driver
\* (and with it the browser it launched); neither the retry loop nor worker
\* catches, so the exception becomes the result of the pool task
AttemptRaises(w) ==
    /\ pc[w] \in InSession
    /\ CanFail(Cur(w))
    /\ sessions' = [sessions EXCEPT ![w] = 0]
    /\ cards' = [cards EXCEPT ![w] = 0]
    /\ hotels' = [hotels EXCEPT ![w] = 0]
    /\ AfterTask(w, FALSE)
    /\ UNCHANGED <<loaderVars, helperVars>>
    /\ UNCHANGED <<disp, queue, accepted, counts, lock, sawExists,
                   fileExists, file, total, mainCount, fate>>

\* variant: the test written as len(hotels) > 100
EnoughStrict(n) == n > MinHotels

\* if len(hotels) >= 100
Enough(n) == n >= MinHotels

\* variant: the retry loop returns whatever the attempt extracted
CheckKeepsShort(w) ==
    /\ pc[w] = "CHECK"
    /\ pc' = [pc EXCEPT ![w] = "ACCEPTED"]
    /\ accepted' = [accepted EXCEPT ![Cur(w)] = TRUE]
    /\ UNCHANGED <<loaderVars, helperVars>>
    /\ UNCHANGED <<disp, queue, chunk, sessions, cards, hotels, tries, result,
                   counts, lock, sawExists, fileExists, file, total, mainCount, fate>>

\* the acceptance test of the retry loop: return hotels, or discard them
Check(w) ==
    /\ pc[w] = "CHECK"
    /\ IF Enough(hotels[w])
       THEN /\ pc' = [pc EXCEPT ![w] = "ACCEPTED"]
            /\ accepted' = [accepted EXCEPT ![Cur(w)] = TRUE]
            /\ hotels' = hotels
       ELSE /\ pc' = [pc EXCEPT ![w] = "RETRY"]
            /\ accepted' = accepted
            /\ hotels' = [hotels EXCEPT ![w] = 0]
    /\ UNCHANGED <<loaderVars, helperVars>>
    /\ UNCHANGED <<disp, queue, chunk, sessions, cards, tries, result, counts,
                   lock, sawExists, fileExists, file, total, mainCount, fate>>

(* -------------------------------------------------------------- result sink *)
\* variant: every worker has a lock of its own
CanAcquireOwnLock(w) == TRUE

\* with lock: the manager lock is free
CanAcquire(w) == lock = 0

\* write_to_csv: df = pd.DataFrame(data); entering  with lock
AcquireLock(w) ==
    /\ pc[w] = "ACCEPTED"
    /\ CanAcquire(w)
    /\ lock' = w
    /\ pc' = [pc EXCEPT ![w] = "LOCKED"]
    /\ UNCHANGED <<loaderVars, helperVars>>
    /\ UNCHANGED <<disp, queue, chunk, sessions, cards, hotels, tries, accepted,
                   result, counts, sawExists, fileExists, file, total, mainCount,
                   fate>>

\* variant: the lock protects the existence test only, not the write
CheckExistsThenUnlock(w) ==
    /\ pc[w] = "LOCKED"
    /\ sawExists' = [sawExists EXCEPT ![w] = fileExists]
    /\ lock' = 0
    /\ pc' = [pc EXCEPT ![w] = "TO_CSV"]
    /\ UNCHANGED <<loaderVars, helperVars>>
    /\ UNCHANGED <<disp, queue, chunk, sessions, cards, hotels, tries, accepted,
                   result, counts, fileExists, file, total, mainCount, fate>>

\* if not os.path.exists(csv_filename)
CheckExists(w) ==
    /\ pc[w] = "LOCKED"
    /\ sawExists' = [sawExists EXCEPT ![w] = fileExists]
    /\ pc' = [pc EXCEPT ![w] = "TO_CSV"]
    /\ UNCHANGED <<loaderVars, helperVars>>
    /\ UNCHANGED <<disp, queue, chunk, sessions, cards, hotels, tries, accepted,
                   result, counts, lock, fileExists, file, total, mainCount, fate>>

\* df.to_csv: mode='w', header=True creates or truncates the file and writes the
\* header; mode='a', header=False opens it for appending; then the first rows
ToCsvBegin(w) ==
    /\ pc[w] = "TO_CSV"
    /\ fileExists' = TRUE
    /\ file' = IF sawExists[w]
               THEN Append(file, Rows(w, 1, Half(hotels[w])))
               ELSE <<Header, Rows(w, 1, Half(hotels[w]))>>
    /\ sawExists' = [sawExists EXCEPT ![w] = FALSE]
    /\ pc' = [pc EXCEPT ![w] = "TO_CSV_REST"]
    /\ UNCHANGED <<loaderVars, helperVars>>
    /\ UNCHANGED <<disp, queue, chunk, sessions, cards, hotels, tries, accepted,
                   result, counts, lock, total, mainCount, fate>>

\* df.to_csv: the remaining rows
ToCsvEnd(w) ==
    /\ pc[w] = "TO_CSV_REST"
    /\ file' = Append(file, Rows(w, Half(hotels[w]) + 1, hotels[w]))
    /\ pc' = [pc EXCEPT ![w] = "WRITTEN"]
    /\ UNCHANGED <<loaderVars, helperVars>>
    /\ UNCHANGED <<disp, queue, chunk, sessions, cards, hotels, tries, accepted,
                   result, counts, lock, sawExists, fileExists, total, mainCount,
                   fate>>

\* print(Appended ...), leaving  with lock; worker: return len(hotels)
ReleaseAndReturn(w) ==
    /\ pc[w] = "WRITTEN"
    /\ lock' = 0
    /\ counts' = [counts EXCEPT ![Cur(w)] = hotels[w]]
    /\ hotels' = [hotels EXCEPT ![w] = 0]
    /\ AfterTask(w, TRUE)
    /\ UNCHANGED <<loaderVars, helperVars>>
    /\ UNCHANGED <<disp, queue, sessions, cards, accepted, sawExists, fileExists,
                   file, total, mainCount, fate>>

\* variant: the lock is taken and released by hand, without try/finally
ToCsvRaisesHoldsLock(w) ==
    /\ pc[w] \in {"TO_CSV", "TO_CSV_REST"}
    /\ UNCHANGED <<fileExists, file, lock>>
    /\ sawExists' = [sawExists EXCEPT ![w] = FALSE]
    /\ hotels' = [hotels EXCEPT ![w] = 0]
    /\ AfterTask(w, FALSE)
    /\ UNCHANGED <<loaderVars, helperVars>>
    /\ UNCHANGED <<disp, queue, sessions, cards, accepted, counts, total,
                   mainCount, fate>>

\* df.to_csv raises (OSError: disk full, no permission): before anything was
\* written, after creating the empty file, or between the parts of the batch;
\* leaving  with lock  releases the lock, and the exception ends worker(args)
ToCsvRaises(w) ==
    /\ pc[w] \in {"TO_CSV", "TO_CSV_REST"}
    /\ \E created \in BOOLEAN :
        IF created /\ pc[w] = "TO_CSV" /\ ~sawExists[w]
        THEN fileExists' = TRUE /\ file' = <<>>
        ELSE UNCHANGED <<fileExists, file>>
    /\ lock' = 0
    /\ sawExists' = [sawExists EXCEPT ![w] = FALSE]
    /\ hotels' = [hotels EXCEPT ![w] = 0]
    /\ AfterTask(w, FALSE)
    /\ UNCHANGED <<loaderVars, helperVars>>
    /\ UNCHANGED <<disp, queue, sessions, cards, accepted, counts, total,
                   mainCount, fate>>

(* ------------------------------------------------------- load_hotel_cards *)
\* card counts of the results page when load_hotel_cards is called
InitialCards == {0, 25, 75, 99, 100, 125}
\* cards one "Load more results" click can add
NewCards == {1, 25}

\* how a page call ends: normally, with playwright's TimeoutError, or with
\* another playwright Error
Outcomes == {"ok", "timeout", "driver"}

\* except <handler>: TimeoutError is a subclass of playwright's Error
Catches(handler, e) ==
    \/ handler = "Exception"
    \/ handler = "PlaywrightError" /\ e \in {"timeout", "driver"}
    \/ handler = "TimeoutError" /\ e = "timeout"

\* the except clauses around the two waits and the click
WaitButtonHandler == "TimeoutError"
ClickHandler == "Exception"
WaitCardsHandler == "TimeoutError"

\* dismiss_genius_popup_if_present: except TimeoutError, except PlaywrightError,
\* except Exception; fallback_click has its own except Exception
DismissRaises(e) ==
    /\ e # "ok"
    /\ ~Catches("TimeoutError", e)
    /\ ~Catches("PlaywrightError", e)
    /\ ~Catches("Exception", e)

\* the exception leaves load_hotel_cards
Raise(call) ==
    /\ lpc' = "RAISED"
    /\ raisedAt' = call
    /\ UNCHANGED <<clicks, rounds, pageCards, current_count>>

\* while clicks < max_clicks
LoopTest ==
    /\ lpc = "LOOP"
    /\ IF clicks < MaxClicks
       THEN lpc' = "SCROLL" /\ rounds' = rounds + 1
       ELSE lpc' = "SETTLE" /\ rounds' = rounds
    /\ UNCHANGED <<clicks, pageCards, current_count, raisedAt>>
    /\ UNCHANGED <<mainVars, helperVars>>

\* full_scroll_bottom, human_like_scroll: page.evaluate
Scroll ==
    /\ lpc = "SCROLL"
    /\ \E o \in {"ok", "driver"} :
        IF o = "ok"
        THEN /\ lpc' = "WAIT_BUTTON"
             /\ UNCHANGED <<clicks, rounds, pageCards, current_count, raisedAt>>
        ELSE Raise("scroll")
    /\ UNCHANGED <<mainVars, helperVars>>

\* load_more_button.wait_for(state="visible", timeout=5000)
WaitButton ==
    /\ lpc = "WAIT_BUTTON"
    /\ \E o \in Outcomes :
        IF o = "ok"
        THEN /\ lpc' = "COUNT"
             /\ UNCHANGED <<clicks, rounds, pageCards, current_count, raisedAt>>
        ELSE IF Catches(WaitButtonHandler, o)
        THEN /\ lpc' = "DISMISS"
             /\ UNCHANGED <<clicks, rounds, pageCards, current_count, raisedAt>>
        ELSE Raise("wait_button")
    /\ UNCHANGED <<mainVars, helperVars>>

\* dismiss_genius_popup_if_present, time.sleep(2), full_scroll_bottom
Dismiss ==
    /\ lpc = "DISMISS"
    /\ \E o \in Outcomes, scroll \in {"ok", "driver"} :
        IF DismissRaises(o) THEN Raise("dismiss")
        ELSE IF scroll # "ok" THEN Raise("scroll")
        ELSE /\ lpc' = "WAIT_BUTTON_AGAIN"
             /\ UNCHANGED <<clicks, rounds, pageCards, current_count, raisedAt>>
    /\ UNCHANGED <<mainVars, helperVars>>

\* the second load_more_button.wait_for; on TimeoutError: clicks += 1; continue
WaitButtonAgain ==
    /\ lpc = "WAIT_BUTTON_AGAIN"
    /\ \E o \in Outcomes :
        IF o = "ok"
        THEN /\ lpc' = "COUNT"
             /\ UNCHANGED <<clicks, rounds, pageCards, current_count, raisedAt>>
        ELSE IF Catches(WaitButtonHandler, o)
        THEN /\ lpc' = "LOOP"
             /\ clicks' = clicks + 1
             /\ UNCHANGED <<rounds, pageCards, current_count, raisedAt>>
        ELSE Raise("wait_button")
    /\ UNCHANGED <<mainVars, helperVars>>

\* current_count = hotel_cards.count(); if current_count >= min_count: break
Count ==
    /\ lpc = "COUNT"
    /\ \E o \in {"ok", "driver"} :
        IF o = "ok"
        THEN /\ current_count' = pageCards
             /\ lpc' = IF pageCards >= MinCount THEN "SETTLE" ELSE "CLICK"
             /\ UNCHANGED <<clicks, rounds, pageCards, raisedAt>>
        ELSE Raise("count")
    /\ UNCHANGED <<mainVars, helperVars>>

\* load_more_button.click(); clicks += 1; on Exception: fallback_click,
\* clicks += 1, continue
Click ==
    /\ lpc = "CLICK"
    /\ \E o \in Outcomes :
        IF o = "ok"
        THEN /\ lpc' = "WAIT_CARDS"
             /\ clicks' = clicks + 1
             /\ UNCHANGED <<rounds, pageCards, current_count, raisedAt>>
        ELSE IF Catches(ClickHandler, o)
        THEN /\ lpc' = "LOOP"
             /\ clicks' = clicks + 1
             /\ UNCHANGED <<rounds, pageCards, current_count, raisedAt>>
        ELSE Raise("click")
    /\ UNCHANGED <<mainVars, helperVars>>

\* page.wait_for_function(length > current_count, timeout=10000);
\* on TimeoutError: clicks += 1
WaitCards ==
    /\ lpc = "WAIT_CARDS"
    /\ \/ \E k \in NewCards :
            /\ pageCards' = pageCards + k
            /\ lpc' = "LOOP"
            /\ UNCHANGED <<clicks, rounds, current_count, raisedAt>>
       \/ \E o \in Outcomes \ {"ok"} :
            IF Catches(WaitCardsHandler, o)
            THEN /\ lpc' = "LOOP"
                 /\ clicks' = clicks + 1
                 /\ UNCHANGED <<rounds, pageCards, current_count, raisedAt>>
            ELSE Raise("wait_cards")
    /\ UNCHANGED <<mainVars, helperVars>>

\* full_scroll_bottom(attempts=2), sleep, final count, return
Settle ==
    /\ lpc = "SETTLE"
    /\ \E o \in {"ok", "driver"} :
        IF o = "ok"
        THEN /\ lpc' = "DONE"
             /\ UNCHANGED <<clicks, rounds, pageCards, current_count, raisedAt>>
        ELSE Raise("scroll")
    /\ UNCHANGED <<mainVars, helperVars>>

LoaderNext ==
    \/ LoopTest
    \/ Scroll
    \/ WaitButton
    \/ Dismiss
    \/ WaitButtonAgain
    \/ Count
    \/ Click
    \/ WaitCards
    \/ Settle

\* one call of load_hotel_cards on a results page
LoaderInit ==
    /\ InitCommon /\ ~fileExists
    /\ fate = [t \in Tasks |-> "free"]
    /\ lpc = "LOOP"
    /\ clicks = 0
    /\ rounds = 0
    /\ pageCards \in InitialCards
    /\ current_count = 0
    /\ raisedAt = "none"
    /\ HelpersIdle

LoaderSpec == LoaderInit /\ [][LoaderNext]_vars

(* ------------------------------------------------------------------- text *)
\* a str is a sequence of one-character strings; None and a value v are <<>> and <<v>>
None == <<>>
Some(v) == <<v>>

DigitChars == <<"0", "1", "2", "3", "4", "5", "6", "7", "8", "9">>

\* what \d and [^\d] test
IsDigit(c) == \E d \in DOMAIN DigitChars : DigitChars[d] = c

DigitVal(c) == (CHOOSE d \in DOMAIN DigitChars : DigitChars[d] = c) - 1

\* what \s, str.strip() and str.split() test
IsSpace(c) == c \in {" ", "\t", "\n"}

\* str.strip()
Strip(s) ==
    LET inked == {k \in 1..Len(s) : ~IsSpace(s[k])}
    IN  IF inked = {} THEN <<>>
        ELSE SubSeq(s, CHOOSE k \in inked : \A m \in inked : k <= m,
                       CHOOSE k \in inked : \A m \in inked : k >= m)

\* str.split()[0]: the first run of non-blank characters; <<>> stands for the
\* IndexError of an empty list
FirstWord(s) ==
    LET t == Strip(s)
        blanks == {k \in 1..Len(t) : IsSpace(t[k])}
    IN  IF blanks = {} THEN t
        ELSE SubSeq(t, 1, (CHOOSE k \in blanks : \A m \in blanks : k <= m) - 1)

\* int(s) raises ValueError
IntRaises(s) == s = <<>> \/ \E k \in 1..Len(s) : ~IsDigit(s[k])

RECURSIVE IntOf(_)
\* int(s) for a string of digits
IntOf(s) == IF s = <<>> THEN 0
            ELSE 10 * IntOf(SubSeq(s, 1, Len(s) - 1)) + DigitVal(s[Len(s)])

\* the end of the run of digits that starts at position k of s (k - 1 if none)
RECURSIVE DigitsEnd(_, _)
DigitsEnd(s, k) == IF k <= Len(s) /\ IsDigit(s[k]) THEN DigitsEnd(s, k + 1) ELSE k - 1

\* the end of the run of whitespace that starts at position k of s (k - 1 if none)
RECURSIVE SpacesEnd(_, _)
SpacesEnd(s, k) == IF k <= Len(s) /\ IsSpace(s[k]) THEN SpacesEnd(s, k + 1) ELSE k - 1

\* \d+\.\d+ matched at position k of s: the end of the match, 0 if it does not
\* match there (the greedy \d+ has nothing to give back: "." is not a digit)
DecimalEnd(s, k) ==
    LET a == DigitsEnd(s, k)
        b == DigitsEnd(s, a + 2)
    IN  IF a >= k /\ a + 1 <= Len(s) /\ s[a + 1] = "." /\ b >= a + 2 THEN b ELSE 0

\* float(text) of a text matched by \d+\.\d+ : the decimal number, as
\* num / 10^exp without trailing zeros
RECURSIVE FloatOf(_)
FloatOf(d) ==
    IF d[Len(d)] = "0"
    THEN FloatOf(SubSeq(d, 1, Len(d) - 1))
    ELSE LET dot == CHOOSE k \in 1..Len(d) : d[k] = "."
         IN  [num |-> IntOf(SubSeq(d, 1, dot - 1) \o SubSeq(d, dot + 1, Len(d))),
              exp |-> Len(d) - dot]

\* re.findall(r"\d+\.\d+", s): the matches left to right, not overlapping
RECURSIVE FindAllFrom(_, _)
FindAllFrom(s, k) ==
    IF k > Len(s) THEN <<>>
    ELSE IF DecimalEnd(s, k) > 0
    THEN <<SubSeq(s, k, DecimalEnd(s, k))>> \o FindAllFrom(s, DecimalEnd(s, k) + 1)
    ELSE FindAllFrom(s, k + 1)

FindAll(s) == FindAllFrom(s, 1)

\* the literal of the pattern  Scored\s+(\d+\.\d+)
Scored == <<"S", "c", "o", "r", "e", "d">>

\* the pattern matched at position k of s: group(1), <<>> if it does not match there
ScoredAt(s, k) ==
    LET w == k + Len(Scored)
        a == SpacesEnd(s, w)
    IN  IF /\ w - 1 <= Len(s)
           /\ SubSeq(s, k, w - 1) = Scored
           /\ a >= w
           /\ DecimalEnd(s, a + 1) > 0
        THEN SubSeq(s, a + 1, DecimalEnd(s, a + 1))
        ELSE <<>>

\* re.search(r"Scored\s+(\d+\.\d+)", s): group(1) of the leftmost match, <<>> for
\* no match
RECURSIVE SearchFrom(_, _)
SearchFrom(s, k) ==
    IF k > Len(s) THEN <<>>
    ELSE IF ScoredAt(s, k) # <<>> THEN ScoredAt(s, k)
    ELSE SearchFrom(s, k + 1)

SearchScored(s) == SearchFrom(s, 1)

\* re.sub(r"[^\d]", "", s)
SubNonDigits(s) == SelectSeq(s, IsDigit)

(* ----------------------------------------------------- extract_hotel_data *)
\* str.lower()
UpperChars == <<"A", "B", "C", "D", "E", "F", "G", "H", "I", "J", "K", "L", "M",
               "N", "O", "P", "Q", "R", "S", "T", "U", "V", "W", "X", "Y", "Z">>
LowerChars == <<"a", "b", "c", "d", "e", "f", "g", "h", "i", "j", "k", "l", "m",
               "n", "o", "p", "q", "r", "s", "t", "u", "v", "w", "x", "y", "z">>
LowerChar(c) == IF \E k \in DOMAIN UpperChars : UpperChars[k] = c
                THEN LowerChars[CHOOSE k \in DOMAIN UpperChars : UpperChars[k] = c]
                ELSE c
Lower(s) == [k \in 1..Len(s) |-> LowerChar(s[k])]

\* sub in s
Contains(s, sub) ==
    \E k \in 1..(Len(s) - Len(sub) + 1) : SubSeq(s, k, k + Len(sub) - 1) = sub

Centrally == <<"c", "e", "n", "t", "r", "a", "l", "l", "y">>
SubwayAccess == <<"s", "u", "b", "w", "a", "y", " ", "a", "c", "c", "e", "s", "s">>

\* the keys of hotel_dict, in the order of the try blocks
Fields == <<"hotel_name", "star_rating", "rating_score", "location_score",
            "review_amount", "bed_info", "price", "breakfast_included",
            "free_cancellation", "no_prepayment_needed", "centrally_located",
            "sustainability_certification", "distance_from_downtown">>

FieldSet == {Fields[k] : k \in DOMAIN Fields}

\* a Python exception raised by the body of a try block (ValueError, TypeError,
\* IndexError), besides the two kinds a page call raises
PyError == "python"

Ok(v) == [exc |-> "ok", val |-> v]
Raised(e) == [exc |-> e, val |-> None]

\* card.locator(...).inner_text(timeout=2000).strip()
TextBody(r) == IF r.exc # "ok" THEN r ELSE Ok(Strip(r.val))

\* star_text = get_attribute("aria-label");
\* int(star_text.split()[0]) if star_text else None
StarBody(r) ==
    IF r.exc # "ok" THEN r
    ELSE IF r.val = None \/ r.val = Some(<<>>) THEN Ok(None)
    ELSE IF IntRaises(FirstWord(r.val[1])) THEN Raised(PyError)
    ELSE Ok(Some(IntOf(FirstWord(r.val[1]))))

\* matches = re.findall(r"\d+\.\d+", text); float(matches[0]) if matches else None
RatingBody(r) ==
    IF r.exc # "ok" THEN r
    ELSE IF FindAll(r.val) # <<>> THEN Ok(Some(FloatOf(FindAll(r.val)[1])))
    ELSE Ok(None)

\* loc_score_text = get_attribute("aria-label"); re.search(..., loc_score_text)
\* (TypeError when the attribute is absent); float(match.group(1)) if match else None
LocationBody(r) ==
    IF r.exc # "ok" THEN r
    ELSE IF r.val = None THEN Raised(PyError)
    ELSE IF SearchScored(r.val[1]) # <<>> THEN Ok(Some(FloatOf(SearchScored(r.val[1]))))
    ELSE Ok(None)

\* variant: only the thousands separators are removed
ReviewAmountCommasOnly(r) ==
    IF r.exc # "ok" THEN r
    ELSE IF IntRaises(SelectSeq(r.val, LAMBDA c : c # ",")) THEN Raised(PyError)
    ELSE Ok(Some(IntOf(SelectSeq(r.val, LAMBDA c : c # ","))))

\* int(re.sub(r"[^\d]", "", review_amount_text))
ReviewAmountBody(r) ==
    IF r.exc # "ok" THEN r
    ELSE IF IntRaises(SubNonDigits(r.val)) THEN Raised(PyError)
    ELSE Ok(Some(IntOf(SubNonDigits(r.val))))

\* card.locator(...).is_visible()
VisibleBody(r) == r

\* card_text = card.inner_text().lower();
\* ("centrally" in card_text) or ("subway access" in card_text)
CentrallyBody(r) ==
    IF r.exc # "ok" THEN r
    ELSE Ok(Contains(Lower(r.val), Centrally) \/ Contains(Lower(r.val), SubwayAccess))

\* the body of the try block of field f, applied to what the page call gives
Body(f, r) ==
    CASE f \in {"hotel_name", "bed_info", "price", "distance_from_downtown"}
            -> TextBody(r)
      [] f = "star_rating" -> StarBody(r)
      [] f = "rating_score" -> RatingBody(r)
      [] f = "location_score" -> LocationBody(r)
      [] f = "review_amount" -> ReviewAmountBody(r)
      [] f = "centrally_located" -> CentrallyBody(r)
      [] OTHER -> VisibleBody(r)

\* the value the except clause of field f assigns
Sentinel(f) ==
    CASE f \in {"hotel_name", "bed_info", "price"} -> <<"N", "/", "A">>
      [] f = "distance_from_downtown" -> <<>>
      [] f \in {"star_rating", "rating_score", "location_score", "review_amount"}
            -> None
      [] OTHER -> FALSE

\* variant: the except clauses catch the timeout only
FieldHandlerTimeoutOnly == "TimeoutError"

\* every try block of extract_hotel_data ends with  except Exception
FieldHandler == "Exception"

\* one try block: the value the field gets, or the exception that propagates
Try(f, r) ==
    LET b == Body(f, r)
    IN  IF b.exc = "ok" THEN [raises |-> FALSE, val |-> b.val]
        ELSE IF Catches(FieldHandler, b.exc)
        THEN [raises |-> FALSE, val |-> Sentinel(f)]
        ELSE [raises |-> TRUE, val |-> Sentinel(f)]

\* str(n)
RECURSIVE ToDigits(_)
ToDigits(n) == IF n < 10 THEN <<DigitChars[n + 1]>>
               ELSE ToDigits(n \div 10) \o <<DigitChars[(n % 10) + 1]>>

\* what the page call of field f gives on card i when the element is there
GoodRaw(f, i) ==
    CASE f = "hotel_name" -> Ok(<<" ", "H">> \o ToDigits(i) \o <<"\n">>)
      [] f = "star_rating" -> Ok(Some(<<"4", " ", "o", "u", "t", " ", "o", "f", " ", "5">>))
      [] f = "rating_score" -> Ok(<<"S", "c", "o", "r", "e", "d", " ", "8", ".", "3", "\n", "8", ".", "3", "\n", "V", "e", "r", "y", " ", "G", "o", "o", "d">>)
      [] f = "location_score" -> Ok(Some(<<"L", "o", "c", "a", "t", "i", "o", "n", ":", " ", "S", "c", "o", "r", "e", "d", " ", "9", ".", "1", " ">>))
      [] f = "review_amount" -> Ok(<<"1", ",", "2", "3", "4", " ", "r", "e", "v", "i", "e", "w", "s">>)
      [] f = "bed_info" -> Ok(<<" ", "1", " ", "q", "u", "e", "e", "n", " ", "b", "e", "d">>)
      [] f = "price" -> Ok(<<"$", "1", "2", "0", " ">>)
      [] f = "centrally_located" -> Ok(<<"H", "o", "t", "e", "l", "\n", "C", "e", "n", "t", "r", "a", "l", "l", "y", " ", "l", "o", "c", "a", "t", "e", "d">>)
      [] f = "distance_from_downtown" -> Ok(<<"0", ".", "5", " ", "k", "m", " ", "f", "r", "o", "m", " ", "d", "o", "w", "n", "t", "o", "w", "n", "\n">>)
      [] OTHER -> Ok(TRUE)

\* the ways the extraction of a field fails: the page call times out, the driver
\* reports an error, the text is there but holds no value, the element or its
\* attribute is not there
FailKinds == {"timeout", "driver", "malformed", "absent"}

\* what the page call of field f gives when the extraction fails that way, or
\* when the element shows the text of the page under test
FailRaw(f, kind) ==
    CASE kind = "shows" ->
            IF f \in {"star_rating", "location_score"} THEN Ok(Some(page.text))
            ELSE Ok(page.text)
      [] kind = "timeout" -> Raised("timeout")
      [] kind = "driver" -> Raised("driver")
      [] kind = "malformed" ->
            (CASE f = "star_rating" -> Ok(Some(<<"f", "o", "u", "r", " ", "s", "t", "a", "r", "s">>))
               [] f = "rating_score" -> Ok(<<"V", "e", "r", "y", " ", "G", "o", "o", "d", " ", "8">>)
               [] f = "location_score" -> Ok(Some(<<"S", "c", "o", "r", "e", "d", " ", "9">>))
               [] f = "review_amount" -> Ok(<<"n", "o", " ", "r", "e", "v", "i", "e", "w", "s">>)
               [] OTHER -> Raised("timeout"))
      [] kind = "absent" ->
            (CASE f \in {"star_rating", "location_score"} -> Ok(None)
               [] f \in {"breakfast_included", "free_cancellation",
                         "no_prepayment_needed", "sustainability_certification"}
                     -> Ok(FALSE)
               [] f = "centrally_located" -> Ok(<<"H", "o", "t", "e", "l", "\n", "i", "n", " ", "Q", "u", "e", "e", "n", "s">>)
               [] OTHER -> Raised("timeout"))

\* the fields that fail on the one faulty card of a page
FailSets ==
    {{}, FieldSet}
    \cup {{f} : f \in FieldSet}
    \cup {FieldSet \ {f} : f \in {"star_rating", "rating_score", "location_score",
                                   "review_amount"}}

\* numbers of cards on the page when extract_hotel_data is called
ExtractTotals == {0, 1, 2, 100, 101}

\* the pages: total cards, the position of the faulty card, what fails on it
\* (the first card, or the last one read when there are more than that)
Pages ==
    {pg \in [total : ExtractTotals, pos : {1, ExtractCap}, fails : FailSets,
             kind : FailKinds, text : {<<>>}] :
        /\ pg.pos = IF pg.total > ExtractCap THEN ExtractCap ELSE 1
        /\ (pg.fails = {} \/ pg.total = 0) => (pg.fails = {} /\ pg.kind = "timeout")}

\* what the page calls give on card i of the page
Card(i) ==
    [f \in FieldSet |-> IF i = page.pos /\ f \in page.fails
                        THEN FailRaw(f, page.kind)
                        ELSE GoodRaw(f, i)]

\* extract_hotel_data is called on a page
ExtractInit ==
    /\ RunIdle
    /\ DatesIdle
    /\ CalendarIdle
    /\ epc = "COUNT"
    /\ page \in Pages
    /\ card_index = 0
    /\ hotels_data = <<>>

\* hotel_cards = page.locator(...); count = hotel_cards.count(); hotels_data = []
CountCards ==
    /\ epc = "COUNT"
    /\ \E o \in {"ok", "driver"} :
        epc' = IF o = "ok" THEN "LOOP" ELSE "COUNT_RAISED"
    /\ UNCHANGED <<page, card_index, hotels_data>>
    /\ UNCHANGED <<mainVars, loaderVars, datesVars, calendarVars>>

\* one iteration of  for i in range(min(count, 100)): the thirteen try blocks,
\* hotel_dict, hotels_data.append(hotel_dict)
ExtractCard ==
    /\ epc = "LOOP"
    /\ card_index < ExtractCount(page.total)
    /\ LET got == [f \in FieldSet |-> Try(f, Card(card_index + 1)[f])]
       IN  IF \E f \in FieldSet : got[f].raises
           THEN /\ epc' = "FIELD_RAISED"
                /\ UNCHANGED <<card_index, hotels_data>>
           ELSE /\ epc' = epc
                /\ card_index' = card_index + 1
                /\ hotels_data' = Append(hotels_data, [f \in FieldSet |-> got[f].val])
    /\ UNCHANGED page
    /\ UNCHANGED <<mainVars, loaderVars, datesVars, calendarVars>>

\* the loop is over: return hotels_data
ExtractReturn ==
    /\ epc = "LOOP"
    /\ card_index = ExtractCount(page.total)
    /\ epc' = "DONE"
    /\ UNCHANGED <<page, card_index, hotels_data>>
    /\ UNCHANGED <<mainVars, loaderVars, datesVars, calendarVars>>

\* longest text enumerated in full
MaxText == 4

\* all texts of at most n characters of an alphabet
TextsOver(alphabet, n) == UNION {[1..m -> alphabet] : m \in 0..n}

\* texts the element of a numeric field can show
FieldTexts(f) ==
    CASE f = "review_amount" ->
            TextsOver({"1", "0", ",", "r"}, MaxText)
            \cup {<<"1", ",", "2", "3", "4", " ", "r", "e", "v", "i", "e", "w", "s">>, <<"n", "o", " ", "r", "e", "v", "i", "e", "w", "s", " ", "y", "e", "t">>}
      [] f = "rating_score" ->
            TextsOver({"8", "0", ".", " "}, MaxText)
            \cup {<<"S", "c", "o", "r", "e", "d", " ", "8", ".", "3">>, <<"S", "c", "o", "r", "e", "d", " ", "1", "0", " ", "E", "x", "c", "e", "p", "t", "i", "o", "n", "a", "l">>}
      [] f = "location_score" ->
            TextsOver({"8", "0", ".", " "}, MaxText)
            \cup {pre \o Scored \o t : pre \in {<<>>, <<"8", ".", "8", " ">>},
                                       t \in TextsOver({"8", "0", ".", " "}, MaxText)}
            \cup {<<"S", "c", "o", "r", "e", "d", " ", "8", ".", "3">>, <<"L", "o", "c", "a", "t", "i", "o", "n", " ", "S", "c", "o", "r", "e", "d", " ", " ", "9", ".", "1", " ", "8", ".", "5">>,
                  <<"s", "c", "o", "r", "e", "d", " ", "8", ".", "3", " ", "S", "c", "o", "r", "e", "d", " ", "9", " ", "S", "c", "o", "r", "e", "d", "\t", "7", ".", "2", "5">>}

\* pages of one card on which one numeric field shows a text
TextPages ==
    {[total |-> 1, pos |-> 1, fails |-> {f}, kind |-> "shows", text |-> t] :
        <<f, t>> \in UNION {{f} \X FieldTexts(f) :
                               f \in {"review_amount", "rating_score", "location_score"}}}

\* extract_hotel_data is called on a page of one card
ParseInit ==
    /\ RunIdle
    /\ DatesIdle
    /\ CalendarIdle
    /\ epc = "COUNT"
    /\ page \in TextPages
    /\ card_index = 0
    /\ hotels_data = <<>>

ExtractNext == CountCards \/ ExtractCard \/ ExtractReturn

ExtractSpec == ExtractInit /\ [][ExtractNext]_vars

\* the numeric fields of extract_hotel_data on the texts an element can show
ParseSpec == ParseInit /\ [][ExtractNext]_vars

(* --------------------------------------------------------------- get_dates *)
\* longest range of start dates and longest stay tried
MaxSpan == 3
MaxLos == 3

\* a date is its day number; date + timedelta(days=n) adds n
StartDates == {10, 11}

\* variant: the last start date is left out
WhileTestExclusive(cur, last) == cur < last

\* while current_date <= end_date
WhileTest(cur, last) == cur <= last

\* get_dates(start_date, end_date, los) is called
DatesInit ==
    /\ RunIdle
    /\ ExtractIdle
    /\ CalendarIdle
    /\ gpc = "WHILE"
    /\ start_date \in StartDates
    /\ end_date \in (start_date - 2)..(start_date + MaxSpan)
    /\ los \in (-1)..MaxLos
    /\ current_date = start_date
    /\ stay_j = 0
    /\ date_tuples = <<>>

\* the test of the while loop; for j in range(1, los+1) starts, or return date_tuples
DatesWhile ==
    /\ gpc = "WHILE"
    /\ IF WhileTest(current_date, end_date)
       THEN gpc' = "FOR" /\ stay_j' = 1
       ELSE gpc' = "DONE" /\ stay_j' = stay_j
    /\ UNCHANGED <<start_date, end_date, los, current_date, date_tuples>>
    /\ UNCHANGED <<mainVars, loaderVars, extractVars, calendarVars>>

\* one iteration of the for loop: check_out = current_date + timedelta(days=j);
\* date_tuples.append((current_date, check_out))
DatesAppend ==
    /\ gpc = "FOR"
    /\ stay_j < los + 1
    /\ date_tuples' = Append(date_tuples, <<current_date, current_date + stay_j>>)
    /\ stay_j' = stay_j + 1
    /\ UNCHANGED <<gpc, start_date, end_date, los, current_date>>
    /\ UNCHANGED <<mainVars, loaderVars, extractVars, calendarVars>>

\* range(1, los+1) is exhausted: current_date += timedelta(days=1)
DatesNextDay ==
    /\ gpc = "FOR"
    /\ ~(stay_j < los + 1)
    /\ current_date' = current_date + 1
    /\ gpc' = "WHILE"
    /\ UNCHANGED <<start_date, end_date, los, stay_j, date_tuples>>
    /\ UNCHANGED <<mainVars, loaderVars, extractVars, calendarVars>>

DatesNext == DatesWhile \/ DatesAppend \/ DatesNextDay

DatesSpec == DatesInit /\ [][DatesNext]_vars

(* ----------------------------------------------------- ensure_date_visible *)
\* page.get_by_role("checkbox", name=date_str, exact=True).is_visible()
Visible == advanced >= months_away

\* ensure_date_visible(page, date_str) is called with the calendar open
CalendarInit ==
    /\ RunIdle
    /\ ExtractIdle
    /\ DatesIdle
    /\ cpc = "WHILE"
    /\ attempts = 0
    /\ months_away \in 0..(MaxAttempts + 1)
    /\ advanced = 0
    /\ warned = FALSE

\* while not ...is_visible() and attempts < max_attempts
CalendarWhile ==
    /\ cpc = "WHILE"
    /\ \E o \in {"ok", "driver"} :
        cpc' = IF o # "ok" THEN "VISIBLE_RAISED"
               ELSE IF ~Visible /\ attempts < MaxAttempts THEN "CLICK"
               ELSE "IF"
    /\ UNCHANGED <<attempts, months_away, advanced, warned>>
    /\ UNCHANGED <<mainVars, loaderVars, extractVars, datesVars>>

\* the loop body: next_month_button.click(), time.sleep(1); on Exception
\* fallback_click(page), which catches its own; attempts += 1
CalendarClick ==
    /\ cpc = "CLICK"
    /\ \E o \in Outcomes :
        IF o = "ok"
        THEN /\ advanced' = advanced + 1
             /\ attempts' = attempts + 1
             /\ cpc' = "WHILE"
        ELSE IF Catches("Exception", o)
        THEN /\ advanced' = advanced
             /\ attempts' = attempts + 1
             /\ cpc' = "WHILE"
        ELSE /\ cpc' = "CLICK_RAISED"
             /\ UNCHANGED <<attempts, advanced>>
    /\ UNCHANGED <<months_away, warned>>
    /\ UNCHANGED <<mainVars, loaderVars, extractVars, datesVars>>

\* if attempts == max_attempts: print(Warning ...); return
CalendarReturn ==
    /\ cpc = "IF"
    /\ warned' = (attempts = MaxAttempts)
    /\ cpc' = "DONE"
    /\ UNCHANGED <<attempts, months_away, advanced>>
    /\ UNCHANGED <<mainVars, loaderVars, extractVars, datesVars>>

CalendarNext == CalendarWhile \/ CalendarClick \/ CalendarReturn

CalendarSpec == CalendarInit /\ [][CalendarNext]_vars

(* ------------------------------------------------------------ specification *)
WorkerStep(w) ==
    \/ TakeChunk(w)
    \/ OpenSession(w)
    \/ Search(w)
    \/ SelectDates(w)
    \/ Load(w)
    \/ ExtractAndClose(w)
    \/ AttemptRaises(w)
    \/ Check(w)
    \/ AcquireLock(w)
    \/ CheckExists(w)
    \/ ToCsvBegin(w)
    \/ ToCsvEnd(w)
    \/ ReleaseAndReturn(w)

Next ==
    \/ Setup
    \/ Finish
    \/ MainRead
    \/ \E w \in Workers : WorkerStep(w)

Spec == Init /\ [][Next]_vars

\* every pool process keeps running, and so does the parent process
Fairness ==
    /\ \A w \in Workers : WF_vars(WorkerStep(w))
    /\ WF_vars(Setup)
    /\ WF_vars(Finish)
    /\ WF_vars(MainRead)

\* each date pair either reaches the threshold after finitely many attempts
\* without raising ("ok") or never reaches it ("stuck")
FairInit ==
    /\ InitCommon
    /\ fate \in [Tasks -> {"ok", "stuck"}]
    /\ LoaderIdle
    /\ HelpersIdle

FairSpec == FairInit /\ [][Next]_vars /\ Fairness

\* a run on a day on which an earlier run left its file
RerunInit == Init /\ fileExists

RerunSpec == RerunInit /\ [][Next]_vars

\* a step of a pool process when writes can fail
SinkStep(w) == WorkerStep(w) \/ ToCsvRaises(w)

SinkNext ==
    \/ Finish
    \/ MainRead
    \/ \E w \in Workers : SinkStep(w)

\* every pool process has its first task's batch accepted and calls write_to_csv
SinkInit ==
    /\ disp = "MAPPING"
    /\ queue = SubSeq(AllChunks, PoolSize + 1, NumChunks)
    /\ chunk = [w \in Workers |-> AllChunks[w]]
    /\ pc = [w \in Workers |-> "ACCEPTED"]
    /\ sessions = [w \in Workers |-> 0]
    /\ cards = [w \in Workers |-> 0]
    /\ hotels = [w \in Workers |-> ExtractCount(MinCount)]
    /\ tries = [w \in Workers |-> "first"]
    /\ accepted = [t \in Tasks |-> \E w \in Workers : Head(AllChunks[w]) = t]
    /\ result = [t \in Tasks |-> "pending"]
    /\ counts = [t \in Tasks |-> 0]
    /\ lock = 0
    /\ sawExists = [w \in Workers |-> FALSE]
    /\ fileExists = FALSE
    /\ file = <<>>
    /\ total = 0
    /\ mainCount = 0
    /\ fate = [t \in Tasks |-> "free"]
    /\ LoaderIdle
    /\ HelpersIdle

\* the run from there on, with writes that can fail; the pool processes and the
\* manager that serves the lock keep running
SinkSpec == SinkInit /\ [][SinkNext]_vars /\ \A w \in Workers : WF_vars(SinkStep(w))

(* ------------------------------------------------------------------ claims *)
\* the states of write_to_csv inside  with lock
InAppend == {"LOCKED", "TO_CSV", "TO_CSV_REST", "WRITTEN"}

\* the states of a worker between the start of an attempt and its acceptance test
Scraping == InSession \cup {"NEW", "CHECK", "RETRY"}

\* the lines of task t in the file, in file order
LinesOf(t) == SelectSeq(file, LAMBDA l : IsRow(l) /\ l.task = t)

\* C1: an attempt that returns fewer than 100 records is not returned by the retry
\* loop and is followed by another attempt of the same task; the first attempt that
\* returns at least 100 records is returned as the accepted batch, and no attempt
\* of an accepted task is started afterwards.
C1_Acceptance ==
    [][\A w \in Workers :
        /\ (pc[w] = "CHECK" /\ pc'[w] # "CHECK") =>
              IF hotels[w] >= MinHotels
              THEN /\ pc'[w] = "ACCEPTED"
                   /\ hotels'[w] = hotels[w]
                   /\ accepted'[Cur(w)]
              ELSE /\ pc'[w] = "RETRY"
                   /\ ~accepted'[Cur(w)]
                   /\ chunk'[w] = chunk[w]
        /\ (pc[w] = "RETRY" /\ pc'[w] # "RETRY") =>
              pc'[w] = "SEARCHING" /\ chunk'[w] = chunk[w] /\ tries'[w] = "later"
        /\ (pc[w] # "SEARCHING" /\ pc'[w] = "SEARCHING") =>
              pc[w] \in {"NEW", "RETRY"} /\ ~accepted[Cur(w)]
        /\ (pc[w] \in Scraping /\ chunk[w] # <<>>) => ~accepted[Cur(w)]
      ]_vars

\* a task was retried after a short attempt and then accepted with exactly 100
C1_Witness ==
    \E w \in Workers :
        pc[w] = "ACCEPTED" /\ tries[w] = "later" /\ hotels[w] = MinHotels

\* sizes of the batches whose append is complete
RECURSIVE WrittenRows(_)
WrittenRows(n) ==
    IF n = 0 THEN 0
    ELSE (IF result[n] = "ok" THEN counts[n] ELSE 0) + WrittenRows(n - 1)

\* C2: whatever the interleaving of the workers' write_to_csv calls on the
\* initially absent file, the file never has more than one header line, and
\* whenever no append is in progress it has one header line (once a batch was
\* written) and as many data rows as the completed appends wrote in total.
C2_OneHeaderAllRows ==
    disp # "START" =>
        /\ HeaderLines(file) <= 1
        /\ (\A w \in Workers : pc[w] \notin InAppend) =>
              /\ DataRows(file) = WrittenRows(NumTasks)
              /\ fileExists => (HeaderLines(file) = 1 /\ file[1] = Header)

\* one worker is inside the append on the absent file while another waits
C2_Witness ==
    \E w1, w2 \in Workers :
        /\ pc[w1] = "TO_CSV" /\ ~sawExists[w1]
        /\ pc[w2] = "ACCEPTED"

\* C3: at most one worker is inside the append, the holder of the one lock is that
\* worker, and a worker inside the append holds an accepted batch; a worker that
\* is scraping, retrying or idle never holds the lock.
C3_MutualExclusion ==
    /\ Cardinality({w \in Workers : pc[w] \in InAppend}) <= 1
    /\ \A w \in Workers :
        /\ pc[w] \in InAppend =>
              /\ lock = w
              /\ accepted[Cur(w)]
              /\ hotels[w] >= MinHotels
        /\ pc[w] \notin InAppend => lock # w

\* a worker holds the lock while another one is in its retry loop
C3_Witness ==
    \E w1, w2 \in Workers :
        lock = w1 /\ pc[w1] = "TO_CSV_REST" /\ pc[w2] = "RETRY"

\* C4: no attempt failure ends a task or the run: no pool task ends with an
\* exception, and scrape_all_dates_sync never fails.
C4_NeverFatal ==
    /\ \A t \in Tasks : result[t] \in {"pending", "ok"}
    /\ disp # "RAISED"

\* C5: a task whose attempts reach the threshold is eventually accepted, whatever
\* the other tasks do.
C5_NoStarvation ==
    \A t \in Tasks : (fate[t] = "ok") ~> accepted[t]

\* C6: a worker never has more than one session open, has one exactly while an
\* attempt is between launch and close, and none before the next attempt, after
\* acceptance or after an attempt that raised.
C6_SessionTeardown ==
    \A w \in Workers :
        /\ sessions[w] <= 1
        /\ (sessions[w] = 1) <=> (pc[w] \in InSession)

\* a task ended by an exception, another attempt about to start after a discarded
\* one, and no session left open
C6_Witness ==
    /\ \E t \in Tasks : result[t] = "raised"
    /\ \E w \in Workers : pc[w] = "RETRY" /\ sessions[w] = 0
    /\ \A w \in Workers : pc[w] \notin InSession => sessions[w] = 0

\* the data rows of task t in the file
TaskRows(t) == DataRows(LinesOf(t))

RECURSIVE SumTaskRows(_)
SumTaskRows(n) == IF n = 0 THEN 0 ELSE TaskRows(n) + SumTaskRows(n - 1)

\* the tasks in the queue or in a worker's chunk
Submitted ==
    {queue[i][j] : <<i, j>> \in {x \in (1..Len(queue)) \X (1..ChunkSize) :
                                    x[2] <= Len(queue[x[1]])}}
    \cup {chunk[w][j] : <<w, j>> \in {x \in Workers \X (1..ChunkSize) :
                                    x[2] <= Len(chunk[x[1]])}}

\* C7: every task is submitted; scrape_all_dates_sync returns only when every task
\* was accepted and its batch appended; the total is the sum of the accepted batch
\* sizes and the number of data rows of the file, which is what main reads back.
C7_DispatchTotal ==
    /\ disp = "MAPPING" =>
          \A t \in Tasks : t \in Submitted \/ result[t] # "pending"
    /\ disp \in {"RETURNED", "DONE"} =>
          /\ \A t \in Tasks :
                /\ result[t] = "ok"
                /\ accepted[t]
                /\ TaskRows(t) = counts[t]
                /\ counts[t] >= MinHotels
          /\ total = SumTaskRows(NumTasks)
          /\ total = DataRows(file)
    /\ disp = "DONE" => mainCount = total

\* the run returned and main read the file back
C7_Witness == disp = "DONE" /\ total = NumTasks * MinHotels /\ mainCount = total

\* C8: the file holds, for each task, the rows of one batch only, each row once
\* and in order, none before the retry loop returned a batch for the task, none
\* of a batch of fewer than 100, and the whole accepted batch once the worker
\* returned; a task that ended with an exception has no row.
C8_ExactlyOnce ==
    disp # "START" =>
        \A t \in Tasks :
            LET L == LinesOf(t) IN
            /\ Len(L) <= 2
            /\ Len(L) >= 1 => accepted[t] /\ L[1].lo = 1
            /\ Len(L) = 2 => /\ L[2].lo = L[1].hi + 1
                             /\ L[2].hi >= MinHotels
            /\ (Len(L) = 1 /\ \E w \in Workers : chunk[w] # <<>> /\ Cur(w) = t) =>
                  \E w \in Workers : /\ chunk[w] # <<>> /\ Cur(w) = t
                                     /\ pc[w] = "TO_CSV_REST"
                                     /\ hotels[w] >= MinHotels
                                     /\ L[1].hi = Half(hotels[w])
            /\ result[t] = "ok" => Len(L) = 2 /\ L[2].hi = counts[t]
            /\ result[t] \in {"raised", "skipped"} => Len(L) = 0

\* a worker whose first attempt was discarded has appended its accepted batch
C8_Witness ==
    \E w \in Workers :
        /\ pc[w] = "WRITTEN" /\ tries[w] = "later"
        /\ TaskRows(Cur(w)) = hotels[w]

\* C9: every round of the loader consumes exactly one unit of the max_clicks
\* budget, so a loader that leaves the loop below min_count has made exactly
\* max_clicks rounds, and never more.
C9_OneUnitPerRound ==
    /\ lpc = "LOOP" => clicks = rounds
    /\ rounds <= MaxClicks
    /\ (lpc \in {"SETTLE", "DONE"} /\ pageCards < MinCount) => rounds = MaxClicks

\* C10: no failure of the wait for the button, the popup dismissal, the click on
\* load more or the wait for new cards leaves load_hotel_cards as an exception.
C10_NeverAborts ==
    lpc = "RAISED" => raisedAt \notin {"wait_button", "dismiss", "click", "wait_cards"}

\* the value the claim gives a field that failed
C11_Sentinel(f) ==
    CASE f \in {"star_rating", "rating_score", "location_score", "review_amount"}
            -> None
      [] f \in {"hotel_name", "bed_info", "price"} -> <<"N", "/", "A">>
      [] f = "distance_from_downtown" -> <<>>
      [] OTHER -> FALSE

\* the value shown by card k for a field whose element is there
C11_Shown(f, k) ==
    CASE f = "hotel_name" -> <<"H">> \o ToDigits(k)
      [] f = "star_rating" -> Some(4)
      [] f = "rating_score" -> Some([num |-> 83, exp |-> 1])
      [] f = "location_score" -> Some([num |-> 91, exp |-> 1])
      [] f = "review_amount" -> Some(1234)
      [] f = "bed_info" -> <<"1", " ", "q", "u", "e", "e", "n", " ", "b", "e", "d">>
      [] f = "price" -> <<"$", "1", "2", "0">>
      [] f = "distance_from_downtown" -> <<"0", ".", "5", " ", "k", "m", " ", "f", "r", "o", "m", " ", "d", "o", "w", "n", "t", "o", "w", "n">>
      [] OTHER -> TRUE

\* C11: whatever fields fail on a card, and however they fail, extract_hotel_data
\* raises no exception from a field, returns min(total, 100) records in card order,
\* a failed field holds its sentinel, and every other field of every card holds
\* the value the card shows.
C11_FaultIsolation ==
    /\ epc # "FIELD_RAISED"
    /\ Len(hotels_data) = card_index
    /\ epc = "DONE" => Len(hotels_data) = Min(page.total, 100)
    /\ \A k \in 1..Len(hotels_data) : \A f \in FieldSet :
          hotels_data[k][f] = IF k = page.pos /\ f \in page.fails
                              THEN C11_Sentinel(f)
                              ELSE C11_Shown(f, k)

\* a page of 101 cards whose 100th card fails in every field was extracted
C11_Witness ==
    /\ epc = "DONE"
    /\ page.total = 101 /\ page.pos = 100 /\ page.fails = FieldSet
    /\ page.kind = "driver"
    /\ Len(hotels_data) = 100
    /\ hotels_data[100]["hotel_name"] = <<"N", "/", "A">>

\* C12: for los >= 0, get_dates returns the pairs (d, d + j), d from start_date to
\* end_date ascending and j from 1 to los ascending for each d:
\* (end_date - start_date + 1) * los pairs when end_date >= start_date, none when
\* the range is empty, each with 1 <= checkout - checkin <= los.
C12_Partition ==
    (gpc = "DONE" /\ los >= 0) =>
        /\ Len(date_tuples) = IF end_date >= start_date
                              THEN (end_date - start_date + 1) * los
                              ELSE 0
        /\ \A n \in 1..Len(date_tuples) :
              /\ date_tuples[n][1] = start_date + ((n - 1) \div los)
              /\ date_tuples[n][2] = date_tuples[n][1] + ((n - 1) % los) + 1
              /\ date_tuples[n][2] - date_tuples[n][1] >= 1
              /\ date_tuples[n][2] - date_tuples[n][1] <= los

\* a range of several days with stays of several lengths was partitioned
C12_Witness ==
    /\ gpc = "DONE"
    /\ end_date = start_date + 2
    /\ los = 3
    /\ Len(date_tuples) = 9

\* C13: once scrape_all_dates_sync has set up the run, the one file all workers
\* write holds no line of an earlier run: it is absent or starts with the header
\* written in this run, every other line is a row of a task of this run, and
\* when the run returns it exists with exactly one header.
C13_FreshStart ==
    disp # "START" =>
        /\ \A k \in 1..Len(file) : IsRow(file[k]) => file[k].task \in Tasks
        /\ \A k \in 2..Len(file) : IsRow(file[k])
        /\ ~fileExists => file = <<>>
        /\ fileExists => file[1] = Header
        /\ disp \in {"RETURNED", "DONE"} => fileExists /\ HeaderLines(file) = 1

\* a run that found the file of an earlier run has returned
C13_Witness ==
    /\ disp = "DONE"
    /\ fileExists
    /\ DataRows(file) = NumTasks * MinHotels

\* C14: the rows of a batch are one contiguous block of the file in the batch's
\* own order, starting with its first row: between two lines of the same task
\* there is no line of another task and no header, and each line continues the
\* rows of the line before it. The order of the blocks is not fixed.
C14_BatchIntegrity ==
    /\ \A a, b \in 1..Len(file) :
          (a < b /\ IsRow(file[a]) /\ IsRow(file[b]) /\ file[a].task = file[b].task)
          => \A k \in a..(b - 1) :
                /\ IsRow(file[k + 1])
                /\ file[k + 1].task = file[a].task
                /\ file[k + 1].lo = file[k].hi + 1
    /\ \A a \in 1..Len(file) :
          (IsRow(file[a]) /\ (a = 1 \/ ~IsRow(file[a - 1])
                                    \/ file[a - 1].task # file[a].task))
          => file[a].lo = 1

\* the whole batch of a later task stands in the file before the whole batch of
\* an earlier one, both written while other workers were running
C14_Witness ==
    \E a \in 1..Len(file) :
        /\ a + 3 <= Len(file)
        /\ \A k \in a..(a + 3) : IsRow(file[k])
        /\ file[a].task = 2 /\ file[a + 1].task = 2 /\ file[a + 1].hi >= MinHotels
        /\ file[a + 2].task = 1 /\ file[a + 3].task = 1 /\ file[a + 3].hi >= MinHotels

\* a string of digits without its leading zeros
RECURSIVE C15_NoLeadingZeros(_)
C15_NoLeadingZeros(d) ==
    IF Len(d) > 1 /\ d[1] = "0" THEN C15_NoLeadingZeros(Tail(d)) ELSE d

\* the decimal numbers written in s: <<a, b, c>> when s[a..b] and s[b+2..c] are
\* runs of digits around the point s[b+1], neither of which extends further
C15_Decimals(s) ==
    {h \in (1..Len(s)) \X (1..Len(s)) \X (1..Len(s)) :
        /\ h[1] <= h[2] /\ h[2] + 2 <= h[3]
        /\ \A k \in h[1]..h[2] : IsDigit(s[k])
        /\ s[h[2] + 1] = "."
        /\ \A k \in (h[2] + 2)..h[3] : IsDigit(s[k])
        /\ h[1] = 1 \/ ~IsDigit(s[h[1] - 1])
        /\ h[3] = Len(s) \/ ~IsDigit(s[h[3] + 1])}

\* the decimal numbers of s that follow the word Scored and blanks: <<k, h>> when
\* Scored starts at k and is separated from the number h by whitespace only
C15_AfterScored(s) ==
    {x \in (1..Len(s)) \X C15_Decimals(s) :
        /\ x[1] + Len(Scored) < x[2][1]
        /\ SubSeq(s, x[1], x[1] + Len(Scored) - 1) = Scored
        /\ \A k \in (x[1] + Len(Scored))..(x[2][1] - 1) : IsSpace(s[k])}

\* v is the number written by the decimal h of s
C15_IsNumber(v, s, h) ==
    LET whole == SubSeq(s, h[1], h[2])
        frac == SubSeq(s, h[2] + 2, h[3])
    IN  /\ v.exp \in 0..Len(frac)
        /\ ToDigits(v.num) = C15_NoLeadingZeros(whole \o SubSeq(frac, 1, v.exp))
        /\ \A k \in (v.exp + 1)..Len(frac) : frac[k] = "0"
        /\ v.exp > 0 => frac[v.exp] # "0"

\* C15: in the record extract_hotel_data returns, the review count is None when
\* the text has no digit and otherwise the integer whose digits are the digits
\* of the text; the review score is None when the text holds no decimal number
\* and otherwise the first one; the location score is None when no decimal
\* number follows Scored and otherwise the one that follows the first such
\* Scored. "1,234 reviews" gives 1234 and "Scored 8.3" gives 8.3.
C15_NumericParsing ==
    (epc = "DONE" /\ page.kind = "shows") =>
        LET s == page.text
            rec == hotels_data[1]
        IN  /\ "review_amount" \in page.fails =>
                 LET v == rec["review_amount"]
                     d == SelectSeq(s, IsDigit)
                 IN  /\ (v = None) <=> (d = <<>>)
                     /\ v # None => ToDigits(v[1]) = C15_NoLeadingZeros(d)
                     /\ s = <<"1", ",", "2", "3", "4", " ", "r", "e", "v", "i", "e", "w", "s">> => v = Some(1234)
            /\ "rating_score" \in page.fails =>
                 LET v == rec["rating_score"]
                     D == C15_Decimals(s)
                 IN  /\ (v = None) <=> (D = {})
                     /\ v # None =>
                           \E h \in D : /\ \A g \in D : h[1] <= g[1]
                                        /\ C15_IsNumber(v[1], s, h)
            /\ "location_score" \in page.fails =>
                 LET v == rec["location_score"]
                     D == C15_AfterScored(s)
                 IN  /\ (v = None) <=> (D = {})
                     /\ v # None =>
                           \E x \in D : /\ \A y \in D : x[1] <= y[1]
                                        /\ C15_IsNumber(v[1], s, x[2])
                     /\ s = <<"S", "c", "o", "r", "e", "d", " ", "8", ".", "3">> => v = Some([num |-> 83, exp |-> 1])

\* extract_hotel_data returned for a count with a thousands separator, or for a
\* label with two decimal numbers of which the first follows Scored
C15_Witness ==
    /\ epc = "DONE"
    /\ page.kind = "shows"
    /\ \/ page.text = <<"1", ",", "2", "3", "4", " ", "r", "e", "v", "i", "e", "w", "s">> /\ hotels_data[1]["review_amount"] = Some(1234)
       \/ /\ page.text = <<"L", "o", "c", "a", "t", "i", "o", "n", " ", "S", "c", "o", "r", "e", "d", " ", " ", "9", ".", "1", " ", "8", ".", "5">>
          /\ hotels_data[1]["location_score"] = Some([num |-> 91, exp |-> 1])

\* the positions of load_hotel_cards inside a round of its loop
C16_InRound == {"SCROLL", "WAIT_BUTTON", "DISMISS", "WAIT_BUTTON_AGAIN", "COUNT",
                "CLICK", "WAIT_CARDS"}

\* C16: in a round in which the page already has at least min_count cards, the
\* loader neither clicks "Load more results" nor ends the round with budget left
\* for another one, whether or not the button is visible.
C16_EarlyStop ==
    [][(pageCards >= MinCount /\ lpc \in C16_InRound) =>
          /\ lpc' # "CLICK"
          /\ ~(lpc' = "LOOP" /\ clicks' < MaxClicks)
      ]_vars

\* C17: ensure_date_visible clicks "Next month" at most max_attempts times and
\* never once the date is visible, no failing click makes it raise, and when it
\* returns it has printed its warning exactly if the date is still not visible.
C17_BoundedSubRetry ==
    /\ attempts <= MaxAttempts
    /\ advanced <= attempts
    /\ cpc = "CLICK" => ~Visible
    /\ cpc # "CLICK_RAISED"
    /\ cpc = "DONE" => (warned <=> ~Visible)

\* C18: at most PoolSize tasks are in progress, one per worker at most, and a
\* worker leaves its task (for the next one, or for none) only when the task was
\* accepted and its whole batch stands in the file.
C18_PoolBound ==
    [][/\ Cardinality({t \in Tasks : \E w \in Workers :
                          chunk'[w] # <<>> /\ Head(chunk'[w]) = t}) <= PoolSize
       /\ \A w1, w2 \in Workers :
             (w1 # w2 /\ chunk'[w1] # <<>> /\ chunk'[w2] # <<>>)
             => Head(chunk'[w1]) # Head(chunk'[w2])
       /\ \A w \in Workers :
             (chunk[w] # <<>> /\ chunk'[w] # chunk[w]) =>
                /\ accepted[Cur(w)]
                /\ pc[w] = "WRITTEN"
                /\ TaskRows(Cur(w)) = hotels[w]
      ]_vars

\* C19: a batch the retry loop returned has exactly 100 records, so has every
\* count a worker returns, and when the run completes the total, the data rows
\* of the file and the count main reads back are 100 times the number of tasks.
C19_ExactlyHundred ==
    /\ \A w \in Workers :
          pc[w] \in {"ACCEPTED"} \cup InAppend => hotels[w] = 100
    /\ \A t \in Tasks :
          /\ result[t] = "ok" => counts[t] = 100
          /\ TaskRows(t) <= 100
    /\ disp \in {"RETURNED", "DONE"} =>
          /\ total = 100 * NumTasks
          /\ DataRows(file) = 100 * NumTasks
    /\ disp = "DONE" => mainCount = 100 * NumTasks

\* the run completed and every task has its hundred rows in the file, in two
\* parts after the one header
C19_Witness ==
    /\ disp = "RETURNED"
    /\ \A t \in Tasks : TaskRows(t) = 100 /\ counts[t] = 100
    /\ Len(file) = 1 + 2 * NumTasks

\* C20: the lock is held only by a worker inside  with lock, also after a write
\* that failed; a worker that holds the lock gives it up, and a worker that
\* waits for the lock with its accepted batch gets it and leaves write_to_csv.
C20_NoPermanentBlocking ==
    /\ [](\A w \in Workers : lock = w => pc[w] \in InAppend)
    /\ \A w \in Workers : (lock = w) ~> (lock # w)
    /\ \A w \in Workers :
          (pc[w] = "ACCEPTED") ~> (pc[w] \notin {"ACCEPTED"} \cup InAppend /\ lock # w)

\* a worker got the lock after the write of another worker had failed
C20_Witness ==
    \E w \in Workers :
        /\ pc[w] = "LOCKED" /\ lock = w
        /\ \E t \in Tasks : result[t] = "raised"

====
